---------------------------- MODULE Spec2Model ----------------------------
(***************************************************************************)
(* A model of the Bloom filter of src/BloomFilter.py and of the calls that *)
(* src/Driver.py makes on it.                                              *)
(*                                                                         *)
(* Python values are records [type, val, nan]:                             *)
(*   int   n      -> [type |-> "int",   val |-> n]                         *)
(*   bool  b      -> [type |-> "bool",  val |-> 1 or 0] (a subclass of int)*)
(*   float x      -> [type |-> "float", val |-> 100 * x] (hundredths)      *)
(*   float('nan') -> [type |-> "float", nan |-> TRUE]                      *)
(*   str(i)       -> [type |-> "str",   val |-> i]  (the decimal string of *)
(*                   i, the words Driver.py adds and queries)              *)
(*   None         -> [type |-> "NoneType"]                                 *)
(* Python's unbounded integers h1, h2 and h1 + i*h2 are little-endian      *)
(* sequences of base-16 digits.  Natural logarithms are in millionths.     *)
(***************************************************************************)
EXTENDS Integers, Sequences, FiniteSets

\* ---------------------------------------------------------------- bounds
\* expected word counts tried at construction: 1..MaxNumWords
MaxNumWords == 2
\* bit-array lengths tried at construction by size: 1..MaxNumBits
MaxNumBits == 6
\* the strings "0", "1", ... str(MaxStr - 1) are added and queried
MaxStr == 3

\* ------------------------------------------------------------- constants
\* fixed point: one unit of a logarithm is 1 / Micro
Micro == 1000000
\* math.log(2), in millionths
Ln2Micro == 693147
\* math.log(2)**2, in millionths
Ln2SqMicro == 480453
\* a float's val is in hundredths
Hundred == 100
\* base of int(s, 16)
Hex == 16

\* ---------------------------------------------------------- Python values
PyInt(v) == [type |-> "int", val |-> v, nan |-> FALSE]
PyBool(v) == [type |-> "bool", val |-> v, nan |-> FALSE]
PyFloat(v) == [type |-> "float", val |-> v, nan |-> FALSE]
PyNaN == [type |-> "float", val |-> 0, nan |-> TRUE]
PyStr(v) == [type |-> "str", val |-> v, nan |-> FALSE]
PyNone == [type |-> "NoneType", val |-> 0, nan |-> FALSE]

\* isinstance(x, int): bool is a subclass of int
isinstance_int(x) == x.type \in {"int", "bool"}
\* isinstance(x, numbers.Number) for the values of this model
isinstance_Number(x) == x.type \in {"int", "bool", "float"}
\* isinstance(x, str)
isinstance_str(x) == x.type = "str"

\* the numeric value of x, in hundredths
Hundredths(x) == IF x.type = "float" THEN x.val ELSE x.val * Hundred
\* x <= 0 and x >= 1 of _validate_probability; every comparison with NaN is False
le_zero(x) == ~x.nan /\ Hundredths(x) <= 0
ge_one(x) == ~x.nan /\ Hundredths(x) >= Hundred

\* ------------------------------------------------- outcomes of a call
Return(v) == [exc |-> "", msg |-> "", ret |-> v]
Raise(kind, reason) == [exc |-> kind, msg |-> reason, ret |-> ""]
NoExc == Return("")

\* ------------------------------------------------------------ validators
validate_num_words(n) ==
    IF ~isinstance_int(n)
    THEN Raise("TypeError", "Number of words should be an integer")
    ELSE IF n.val <= 0
    THEN Raise("ValueError", "Number of words should be positive")
    ELSE NoExc

\* variant: the range test written m < 0
validate_num_bits_lt(m) ==
    IF ~isinstance_int(m)
    THEN Raise("TypeError", "Length of bit array should be an integer")
    ELSE IF m.val < 0
    THEN Raise("ValueError", "Length of bit array should be positive")
    ELSE NoExc

validate_num_bits(m) ==
    IF ~isinstance_int(m)
    THEN Raise("TypeError", "Length of bit array should be an integer")
    ELSE IF m.val <= 0
    THEN Raise("ValueError", "Length of bit array should be positive")
    ELSE NoExc

\* variant: the range test raises what the type test raises
validate_probability_same_reason(p) ==
    IF ~isinstance_Number(p)
    THEN Raise("TypeError", "Probability should be a number")
    ELSE IF le_zero(p) \/ ge_one(p)
    THEN Raise("TypeError", "Probability should be a number")
    ELSE NoExc

validate_probability(p) ==
    IF ~isinstance_Number(p)
    THEN Raise("TypeError", "Probability should be a number")
    ELSE IF le_zero(p) \/ ge_one(p)
    THEN Raise("ValueError", "Probability should be a number in (0,1)")
    ELSE NoExc

\* variant: None is let through
validate_word_none_ok(w) ==
    IF w.type # "NoneType" /\ ~isinstance_str(w)
    THEN Raise("TypeError", "Word should be a string")
    ELSE NoExc

\* variant: the failure is raised as a ValueError
validate_word_value_error(w) ==
    IF ~isinstance_str(w)
    THEN Raise("ValueError", "Word should be a string")
    ELSE NoExc

validate_word(w) ==
    IF ~isinstance_str(w)
    THEN Raise("TypeError", "Word should be a string")
    ELSE NoExc

\* ---------------------------------------------------------- parameter math
\* math.log(p) in millionths, for the probabilities of this model (hundredths)
math_log(p) ==
    CASE p.val = 1 -> -4605170
      [] p.val = 10 -> -2302585
      [] p.val = 50 -> -693147
      [] p.val = 90 -> -105361

\* variant: int(m) instead of math.ceil(m)
math_ceil_int(a, b) == a \div b

\* math.ceil(a / b) for a >= 0, b > 0
math_ceil(a, b) == (a + b - 1) \div b

\* m = -(n * math.log(p)) / (math.log(2)**2); return math.ceil(m).
\* math.log(nan) is nan, and math.ceil(nan) raises ValueError.
calculate_num_bits(n, p) ==
    IF p.nan
    THEN Raise("ValueError", "cannot convert float NaN to integer")
    ELSE Return(PyInt(math_ceil(-(n.val * math_log(p)), Ln2SqMicro)))

\* variant: k rounded to the nearest integer, round(k), instead of int(k)
calculate_num_hash_round(n, m) ==
    (2 * m * Ln2Micro + n * Micro) \div (2 * n * Micro)

\* k = (m/n) * math.log(2); return int(k)  (int truncates; k > 0)
calculate_num_hash(n, m) == (m * Ln2Micro) \div (n * Micro)

\* math.exp(-(m/n) * (math.log(2)**2)), held as its natural logarithm in
\* millionths (truncated toward zero, as a value in (-inf, 0))
calculate_false_positive(n, m) == -((m * Ln2SqMicro) \div n)

\* ------------------------------------------------------------------ hashing
\* hashlib.md5(word.encode()).hexdigest() of the words "0", "1", ...: 32 hex
\* digits, most significant first
MD5Table == <<
    \* md5("0") = cfcd208495d565ef66e7dff9f98764da
    <<12, 15, 12, 13, 2, 0, 8, 4, 9, 5, 13, 5, 6, 5, 14, 15, 6, 6, 14, 7, 13, 15, 15, 9, 15, 9, 8, 7, 6, 4, 13, 10>>,
    \* md5("1") = c4ca4238a0b923820dcc509a6f75849b
    <<12, 4, 12, 10, 4, 2, 3, 8, 10, 0, 11, 9, 2, 3, 8, 2, 0, 13, 12, 12, 5, 0, 9, 10, 6, 15, 7, 5, 8, 4, 9, 11>>,
    \* md5("2") = c81e728d9d4c2f636f067f89cc14862c
    <<12, 8, 1, 14, 7, 2, 8, 13, 9, 13, 4, 12, 2, 15, 6, 3, 6, 15, 0, 6, 7, 15, 8, 9, 12, 12, 1, 4, 8, 6, 2, 12>>,
    \* md5("3") = eccbc87e4b5ce2fe28308fd9f2a7baf3
    <<14, 12, 12, 11, 12, 8, 7, 14, 4, 11, 5, 12, 14, 2, 15, 14, 2, 8, 3, 0, 8, 15, 13, 9, 15, 2, 10, 7, 11, 10, 15, 3>>,
    \* md5("4") = a87ff679a2f3e71d9181a67b7542122c
    <<10, 8, 7, 15, 15, 6, 7, 9, 10, 2, 15, 3, 14, 7, 1, 13, 9, 1, 8, 1, 10, 6, 7, 11, 7, 5, 4, 2, 1, 2, 2, 12>>,
    \* md5("5") = e4da3b7fbbce2345d7772b0674a318d5
    <<14, 4, 13, 10, 3, 11, 7, 15, 11, 11, 12, 14, 2, 3, 4, 5, 13, 7, 7, 7, 2, 11, 0, 6, 7, 4, 10, 3, 1, 8, 13, 5>>,
    \* md5("6") = 1679091c5a880faf6fb5e6087eb1b2dc
    <<1, 6, 7, 9, 0, 9, 1, 12, 5, 10, 8, 8, 0, 15, 10, 15, 6, 15, 11, 5, 14, 6, 0, 8, 7, 14, 11, 1, 11, 2, 13, 12>>,
    \* md5("7") = 8f14e45fceea167a5a36dedd4bea2543
    <<8, 15, 1, 4, 14, 4, 5, 15, 12, 14, 14, 10, 1, 6, 7, 10, 5, 10, 3, 6, 13, 14, 13, 13, 4, 11, 14, 10, 2, 5, 4, 3>>
>>

md5_hexdigest(word) == MD5Table[word.val + 1]

\* word.encode() of _get_hashes: only a str has the method
encode_raises(word) ==
    IF isinstance_str(word) THEN NoExc
    ELSE Raise("AttributeError", "object has no attribute 'encode'")

\* int(s, 16): the digits of s, least significant first
int16(s) == [i \in 1..Len(s) |-> s[Len(s) + 1 - i]]

\* a * i + carry on unbounded integers, i a small natural number
RECURSIVE big_mul(_, _, _)
big_mul(a, i, carry) ==
    IF a = <<>>
    THEN IF carry = 0 THEN <<>>
         ELSE <<carry % Hex>> \o big_mul(<<>>, i, carry \div Hex)
    ELSE LET t == a[1] * i + carry
         IN  <<t % Hex>> \o big_mul(Tail(a), i, t \div Hex)

\* a + b + carry on unbounded integers
RECURSIVE big_add(_, _, _)
big_add(a, b, carry) ==
    IF a = <<>> /\ b = <<>>
    THEN IF carry = 0 THEN <<>> ELSE <<carry>>
    ELSE LET x == IF a = <<>> THEN 0 ELSE a[1]
             y == IF b = <<>> THEN 0 ELSE b[1]
             t == x + y + carry
         IN  <<t % Hex>> \o big_add(IF a = <<>> THEN a ELSE Tail(a),
                                    IF b = <<>> THEN b ELSE Tail(b),
                                    t \div Hex)

\* a % m on an unbounded integer a >= 0, m > 0: in [0, m)
RECURSIVE big_mod(_, _)
big_mod(a, m) ==
    IF a = <<>> THEN 0 ELSE (big_mod(Tail(a), m) * Hex + a[1]) % m

\* range(a, b)
py_range(a, b) == [i \in 1..(IF b > a THEN b - a ELSE 0) |-> a + i - 1]

\* ------------------------------------------------------------------- inputs
\* the probabilities in (0,1) of this model, in hundredths
Probabilities == {1, 10, 50, 90}

Words == {PyStr(i) : i \in 0..(MaxStr - 1)}
\* what add and query are called with
Items == Words \cup {PyInt(7), PyNone}
NotIntegers == {PyFloat(250), PyStr(0), PyNone}
\* what the constructors are called with as num_words
NumWordsArgs ==
    {PyInt(v) : v \in {-5, 0} \cup 1..MaxNumWords}
        \cup {PyBool(0), PyBool(1)} \cup NotIntegers
\* what the constructor is called with as num_bits
NumBitsArgs ==
    {PyInt(v) : v \in {-5, 0} \cup 1..MaxNumBits}
        \cup {PyBool(0), PyBool(1)} \cup NotIntegers
\* what with_false_positive_constraint is called with as probability
ProbabilityArgs ==
    {PyFloat(v) : v \in {-50, 0, 100, 150} \cup Probabilities}
        \cup {PyNaN, PyInt(0), PyInt(1), PyBool(1), PyStr(0), PyNone}

\* variant: h1 taken from hexdigest()[:16]
hash_position_16(word, i, m) ==
    LET digest == md5_hexdigest(word)
        h1 == int16(SubSeq(digest, 1, 16))
        h2 == int16(SubSeq(digest, 17, 32))
    IN  big_mod(big_add(h1, big_mul(h2, i, 0), 0), m)

\* hexdigest()[:15]: the hex digits h1 is read from (Python indices 0..14)
h1_hex(word) == SubSeq(md5_hexdigest(word), 1, 15)
\* hexdigest()[16:]: the hex digits h2 is read from (Python indices 16..31)
h2_hex(word) == SubSeq(md5_hexdigest(word), 17, 32)

\* (h1 + i*h2) % m of _get_hashes: h1 is the first 15 hex digits of the md5
\* digest (hexdigest()[:15]), h2 the digits from index 16 on (hexdigest()[16:])
hash_position(word, i, m) ==
    LET h1 == int16(h1_hex(word))
        h2 == int16(h2_hex(word))
    IN  big_mod(big_add(h1, big_mul(h2, i, 0), 0), m)

\* the bit-array lengths a constructor call of this model can produce
BitCounts ==
    1..MaxNumBits \cup
    {calculate_num_bits(PyInt(n), PyFloat(v)).ret.val :
        n \in 1..MaxNumWords, v \in Probabilities}

\* hash_position is evaluated once for every word, every bit-array length m
\* and every i a filter of m bits uses (num_hash is largest for num_words = 1)
PositionTable ==
    [t \in UNION {{<<w, i, m>> : w \in Words,
                                 i \in 1..calculate_num_hash(1, m)} :
                  m \in BitCounts}
        |-> hash_position(t[1], t[2], t[3])]

\* -------------------------------------------------------------------- state
VARIABLES
    constructed,          \* whether a BloomFilter object exists
    num_words,            \* self._num_words
    num_bits,             \* self._num_bits
    false_positive_prob,  \* self._false_positive_prob (its logarithm, millionths)
    num_hash,             \* self._num_hash
    bit_array,            \* self._bit_array; Python index i is bit_array[i + 1]
    call,                 \* the last call made: [op, a, b]
    result,               \* what the last call returned or raised
    repeat,               \* the last call repeats the call before it
    added,                \* history: the words add has completed for
    found                 \* history: the words query has returned True for

filter == <<constructed, num_words, num_bits, false_positive_prob, num_hash>>
vars == <<constructed, num_words, num_bits, false_positive_prob, num_hash,
          bit_array, call, result, repeat, added, found>>

\* _get_hashes: one position per i in range(1, self.num_hash + 1)
get_hashes(word) ==
    LET is == py_range(1, num_hash + 1)
    IN  [j \in 1..Len(is) |-> PositionTable[<<word, is[j], num_bits>>]]

\* variant: the loop leaves after its first index
set_bits_first(bits, bit_indices) ==
    IF bit_indices = <<>> THEN bits
    ELSE [bits EXCEPT ![bit_indices[1] + 1] = TRUE]

\* variant: self._bit_array[i] = not self._bit_array[i]
RECURSIVE set_bits_toggle(_, _)
set_bits_toggle(bits, bit_indices) ==
    IF bit_indices = <<>> THEN bits
    ELSE set_bits_toggle(
             [bits EXCEPT ![bit_indices[1] + 1] = ~bits[bit_indices[1] + 1]],
             Tail(bit_indices))

\* variant: the bits of the word replace the array instead of joining it
set_bits_fresh(bits, bit_indices) ==
    [i \in DOMAIN bits |-> \E j \in DOMAIN bit_indices : bit_indices[j] + 1 = i]

\* for i in bit_indices: self._bit_array[i] = True
RECURSIVE set_bits(_, _)
set_bits(bits, bit_indices) ==
    IF bit_indices = <<>> THEN bits
    ELSE set_bits([bits EXCEPT ![bit_indices[1] + 1] = TRUE], Tail(bit_indices))

\* variant: any(...) instead of all(...)
py_any(bools) == \E j \in DOMAIN bools : bools[j]

\* variant: only the first position is looked at
py_first(bools) == IF bools = <<>> THEN TRUE ELSE bools[1]

\* all([self._bit_array[i] for i in bit_indices])
RECURSIVE py_all(_)
py_all(bools) ==
    IF bools = <<>> THEN TRUE ELSE bools[1] /\ py_all(Tail(bools))

\* the value query returns for a string
query_value(word) ==
    LET bit_indices == get_hashes(word)
    IN  py_all([j \in 1..Len(bit_indices) |-> bit_array[bit_indices[j] + 1]])

py_bool(b) == IF b THEN "True" ELSE "False"

\* --------------------------------------------------------------------- Init
Init ==
    /\ constructed = FALSE
    /\ num_words = 0
    /\ num_bits = 0
    /\ false_positive_prob = 0
    /\ num_hash = 0
    /\ bit_array = <<>>
    /\ call = [op |-> "", a |-> PyNone, b |-> PyNone]
    /\ result = NoExc
    /\ repeat = FALSE
    /\ added = {}
    /\ found = {}

\* ------------------------------------------------------------------ actions
\* what every call records
Called(op, a, b) ==
    /\ call' = [op |-> op, a |-> a, b |-> b]
    /\ repeat' = (call = [op |-> op, a |-> a, b |-> b])

\* variant: the bit array is one longer, [False]*(num_bits + 1)
init_body_extra_bit(n, m) ==
    /\ constructed' = TRUE
    /\ num_words' = n.val
    /\ num_bits' = m.val
    /\ false_positive_prob' = calculate_false_positive(n.val, m.val)
    /\ num_hash' = calculate_num_hash(n.val, m.val)
    /\ bit_array' = [i \in 1..(m.val + 1) |-> FALSE]

\* __init__ past its validation: the assignments of lines 22-27
init_body(n, m) ==
    /\ constructed' = TRUE
    /\ num_words' = n.val
    /\ num_bits' = m.val
    /\ false_positive_prob' = calculate_false_positive(n.val, m.val)
    /\ num_hash' = calculate_num_hash(n.val, m.val)
    /\ bit_array' = [i \in 1..m.val |-> FALSE]

\* __init__(self, num_words, num_bits)
init(n, m) ==
    LET e1 == validate_num_words(n)
        e2 == validate_num_bits(m)
    IN  IF e1.exc # "" THEN result' = e1 /\ UNCHANGED <<filter, bit_array>>
        ELSE IF e2.exc # "" THEN result' = e2 /\ UNCHANGED <<filter, bit_array>>
        ELSE result' = Return("BloomFilter") /\ init_body(n, m)

\* BloomFilter(num_words, num_bits)
BloomFilter(n, m) ==
    /\ ~constructed
    /\ init(n, m)
    /\ Called("BloomFilter", n, m)
    /\ UNCHANGED <<added, found>>

\* BloomFilter.with_false_positive_constraint(num_words, probability)
with_false_positive_constraint(n, p) ==
    /\ ~constructed
    /\ LET e1 == validate_num_words(n)
           e2 == validate_probability(p)
       IN  IF e1.exc # "" THEN result' = e1 /\ UNCHANGED <<filter, bit_array>>
           ELSE IF e2.exc # "" THEN result' = e2 /\ UNCHANGED <<filter, bit_array>>
           ELSE LET m == calculate_num_bits(n, p)
                IN  IF m.exc # ""
                    THEN result' = Raise(m.exc, m.msg)
                         /\ UNCHANGED <<filter, bit_array>>
                    ELSE init(n, m.ret)
    /\ Called("with_false_positive_constraint", n, p)
    /\ UNCHANGED <<added, found>>

\* variant: add refuses a word beyond the num_words the filter was built for
add_capped(word) ==
    /\ constructed
    /\ LET e == validate_word(word)
       IN  IF e.exc # ""
           THEN result' = e /\ UNCHANGED <<bit_array, added>>
           ELSE IF Cardinality(added \cup {word}) > num_words
           THEN result' = Raise("ValueError", "filter is full")
                /\ UNCHANGED <<bit_array, added>>
           ELSE /\ bit_array' = set_bits(bit_array, get_hashes(word))
                /\ result' = Return("None")
                /\ added' = added \cup {word}
    /\ Called("add", word, PyNone)
    /\ UNCHANGED <<filter, found>>

\* add(self, word)
add(word) ==
    /\ constructed
    /\ LET e == validate_word(word)
       IN  IF e.exc # ""
           THEN result' = e /\ UNCHANGED <<bit_array, added>>
           ELSE IF encode_raises(word).exc # ""
           THEN result' = encode_raises(word) /\ UNCHANGED <<bit_array, added>>
           ELSE /\ bit_array' = set_bits(bit_array, get_hashes(word))
                /\ result' = Return("None")
                /\ added' = added \cup {word}
    /\ Called("add", word, PyNone)
    /\ UNCHANGED <<filter, found>>

\* variant: query sets the bits it looks at
query_marks(word) ==
    /\ constructed
    /\ LET e == validate_word(word)
       IN  IF e.exc # ""
           THEN result' = e /\ UNCHANGED <<found, bit_array>>
           ELSE /\ result' = Return(py_bool(query_value(word)))
                /\ found' = IF query_value(word) THEN found \cup {word} ELSE found
                /\ bit_array' = set_bits(bit_array, get_hashes(word))
    /\ Called("query", word, PyNone)
    /\ UNCHANGED <<filter, added>>

\* query(self, word)
query(word) ==
    /\ constructed
    /\ LET e == validate_word(word)
       IN  IF e.exc # ""
           THEN result' = e /\ UNCHANGED found
           ELSE IF encode_raises(word).exc # ""
           THEN result' = encode_raises(word) /\ UNCHANGED found
           ELSE /\ result' = Return(py_bool(query_value(word)))
                /\ found' = IF query_value(word) THEN found \cup {word} ELSE found
    /\ Called("query", word, PyNone)
    /\ UNCHANGED <<filter, bit_array, added>>

Next ==
    \/ \E n \in NumWordsArgs, m \in NumBitsArgs : BloomFilter(n, m)
    \/ \E n \in NumWordsArgs, p \in ProbabilityArgs :
           with_false_positive_constraint(n, p)
    \/ \E word \in Items : add(word)
    \/ \E word \in Items : query(word)

Spec == Init /\ [][Next]_vars

\* =================================================================== claims
\* the bit positions that are True
SetBits == {i \in DOMAIN bit_array : bit_array[i]}
\* the last call was op on a string and returned
Returned(op) == call.op = op /\ isinstance_str(call.a) /\ result.exc = ""

\* C1: no false negatives.  Once add(w) has completed, query(w) returns True:
\* in every state every word w that add has completed for is answered True,
\* and a query call made on such a word has returned True, whatever adds of
\* other words came in between.
C1_NoFalseNegatives ==
    constructed =>
        /\ \A w \in added : query_value(w)
        /\ (Returned("query") /\ call.a \in added) => result.ret = "True"

\* reached: with at least one hash function, two words were added and a query
\* on one of them returned True
C1_Witness ==
    /\ constructed /\ num_hash >= 1
    /\ Cardinality(added) >= 2
    /\ Returned("query") /\ call.a \in added /\ result.ret = "True"

\* C2: bits are never cleared.  In every step (add or query, returning or
\* raising) every bit that was True before the step is True after it, and the
\* array keeps its length; so the only change add makes is False -> True.
C2_BitsNeverCleared ==
    [][constructed =>
          /\ DOMAIN bit_array' = DOMAIN bit_array
          /\ \A i \in DOMAIN bit_array : bit_array[i] => bit_array'[i]]_vars

\* reached: an add has set some bits of an array that already had other bits
\* set, and left some bits False
C2_Witness ==
    /\ constructed /\ Returned("add")
    /\ Cardinality(added) >= 2
    /\ \E i \in SetBits : \A j \in DOMAIN get_hashes(call.a) :
           get_hashes(call.a)[j] + 1 # i
    /\ SetBits # DOMAIN bit_array

\* C3: query results are monotone.  Every word query has once returned True
\* for, inserted or not, is answered True in every later state, and a query
\* call made on it has returned True.
C3_QueryMonotone ==
    constructed =>
        /\ \A w \in found : query_value(w)
        /\ (Returned("query") /\ call.a \in found) => result.ret = "True"

\* reached: a word that was never added was found (a false positive) by a
\* filter with at least one hash function, and an add came after that
C3_Witness ==
    /\ constructed /\ num_hash >= 1
    /\ found \ added # {}
    /\ Returned("add")
    /\ SetBits # DOMAIN bit_array

\* C4: add is idempotent.  An add(w) that directly follows an add(w) of the
\* same string leaves the bit array exactly as the first one left it.
C4_AddIdempotent ==
    [][(call'.op = "add" /\ isinstance_str(call'.a) /\ repeat')
          => bit_array' = bit_array]_vars

\* reached: add(w) was called twice in a row on a filter with at least one
\* hash function, with bits of w set and other bits not
C4_Witness ==
    /\ constructed /\ num_hash >= 1
    /\ Returned("add") /\ repeat
    /\ SetBits # {} /\ SetBits # DOMAIN bit_array

\* C5: query(w) returns True if and only if every one of the num_hash
\* positions (h1 + i*h2) % num_bits, i = 1..num_hash, derived for w is True in
\* the bit array, and False as soon as one of them is False.
C5_QueryIffAllSet ==
    (constructed /\ Returned("query")) =>
        /\ result.ret \in {"True", "False"}
        /\ result.ret = "True" <=>
               \A i \in 1..num_hash :
                   bit_array[hash_position(call.a, i, num_bits) + 1]

\* reached: a query returned False for a word with some of its positions True
\* and some False
C5_Witness ==
    /\ constructed /\ Returned("query") /\ result.ret = "False"
    /\ \E i \in 1..num_hash : bit_array[hash_position(call.a, i, num_bits) + 1]
    /\ \E i \in 1..num_hash : ~bit_array[hash_position(call.a, i, num_bits) + 1]

\* the value of the hex digits s (most significant first) modulo m, by
\* Horner's rule on residues
RECURSIVE HornerMod(_, _)
HornerMod(s, m) ==
    IF s = <<>> THEN 0
    ELSE (HornerMod(SubSeq(s, 1, Len(s) - 1), m) * Hex + s[Len(s)]) % m

\* the i-th position of the claim, (h1 + i*h2) mod m, from the residues of h1
\* and h2
ClaimedPosition(w, i, m) ==
    (HornerMod(SubSeq(md5_hexdigest(w), 1, 15), m)
        + i * HornerMod(SubSeq(md5_hexdigest(w), 17, 32), m)) % m

\* C6: for every string and every filter, hash derivation yields a list of
\* exactly num_hash positions, the i-th (i = 1..num_hash) being
\* (h1 + i*h2) mod num_bits; colliding positions stay in the list, and every
\* position is in [0, num_bits), an index of the bit array.
C6_HashDerivation ==
    constructed =>
        \A w \in Words :
            LET h == get_hashes(w)
            IN  /\ DOMAIN h = 1..num_hash
                /\ \A i \in 1..num_hash :
                       /\ h[i] = ClaimedPosition(w, i, num_bits)
                       /\ h[i] \in 0..(num_bits - 1)
                       /\ h[i] + 1 \in DOMAIN bit_array

\* reached: an add has run with a position list that holds one position twice
C6_Witness ==
    /\ constructed /\ Returned("add")
    /\ LET h == get_hashes(call.a)
       IN  /\ Len(h) = num_hash
           /\ \E i, j \in 1..num_hash : i < j /\ h[i] = h[j]
           /\ \E i, j \in 1..num_hash : h[i] # h[j]

\* C7: a degenerate filter (num_hash = 0).  Every add leaves the bit array
\* all False, and every query on any string, added or not, returns True.
C7_Degenerate ==
    (constructed /\ num_hash = 0) =>
        /\ SetBits = {}
        /\ \A w \in Words : query_value(w)
        /\ Returned("query") => result.ret = "True"

\* reached: on a filter with num_hash = 0 a word was added, and a query on a
\* word that was never added returned True
C7_Witness ==
    /\ constructed /\ num_hash = 0
    /\ added # {}
    /\ Returned("query") /\ call.a \notin added /\ result.ret = "True"

\* C8: num_hash = floor((num_bits / num_words) * ln 2): the integer k with
\* k <= (m/n) ln 2 < k + 1, never rounded up; and num_hash = 0 exactly when
\* (m/n) ln 2 < 1.
C8_NumHashIsFloor ==
    constructed =>
        /\ num_hash * num_words * Micro <= num_bits * Ln2Micro
        /\ num_bits * Ln2Micro < (num_hash + 1) * num_words * Micro
        /\ num_hash = 0 <=> num_bits * Ln2Micro < num_words * Micro

\* reached: a filter constructed by size whose (m/n) ln 2 has a fractional
\* part of at least one half, which rounding would take up
C8_Witness ==
    /\ constructed /\ call.op = "BloomFilter"
    /\ 2 * (num_bits * Ln2Micro - num_hash * num_words * Micro)
           >= num_words * Micro

\* a positive integer
PositiveInteger(x) == isinstance_int(x) /\ x.val >= 1
\* the reasons given for a value that is not an integer, and not positive
NotIntegerReasons ==
    {"Number of words should be an integer",
     "Length of bit array should be an integer"}
NotPositiveReasons ==
    {"Number of words should be positive",
     "Length of bit array should be positive"}

\* C9: BloomFilter(num_words, num_bits) succeeds if and only if both
\* arguments are positive integers.  Otherwise it raises, no filter is
\* produced, and the reason tells a value that is not an integer (TypeError)
\* from an integer that is not positive (ValueError).
C9_ConstructBySize ==
    call.op = "BloomFilter" =>
        LET bad == IF PositiveInteger(call.a) THEN call.b ELSE call.a
        IN  /\ result.exc = "" <=>
                   (PositiveInteger(call.a) /\ PositiveInteger(call.b))
            /\ result.exc = "" => (constructed /\ result.ret = "BloomFilter")
            /\ result.exc # "" =>
                   /\ ~constructed /\ bit_array = <<>>
                   /\ ~isinstance_int(bad) =>
                          (result.exc = "TypeError"
                              /\ result.msg \in NotIntegerReasons)
                   /\ isinstance_int(bad) =>
                          (result.exc = "ValueError"
                              /\ result.msg \in NotPositiveReasons)
                   /\ NotIntegerReasons \cap NotPositiveReasons = {}

\* reached: a call with a valid num_words and num_bits = 0 has raised
C9_Witness ==
    /\ call.op = "BloomFilter"
    /\ PositiveInteger(call.a) /\ call.b = PyInt(0)
    /\ result.exc = "ValueError" /\ ~constructed

\* a number strictly between 0 and 1
InOpenUnitInterval(x) ==
    isinstance_Number(x) /\ ~x.nan /\ 0 < Hundredths(x) /\ Hundredths(x) < Hundred

\* C10: with_false_positive_constraint(num_words, probability) raises
\* whenever probability is not a number or not strictly between 0 and 1, and
\* whenever num_words is not a positive integer; no filter is produced in a
\* failing call; and with a valid num_words the reason tells a probability
\* that is not a number (TypeError) from one out of range (ValueError).
C10_ConstructByBound ==
    call.op = "with_false_positive_constraint" =>
        /\ (~PositiveInteger(call.a) \/ ~InOpenUnitInterval(call.b))
               => result.exc \in {"TypeError", "ValueError"}
        /\ result.exc # "" => (~constructed /\ bit_array = <<>>)
        /\ (PositiveInteger(call.a) /\ ~isinstance_Number(call.b)) =>
               (result.exc = "TypeError"
                   /\ result.msg = "Probability should be a number")
        /\ (PositiveInteger(call.a) /\ isinstance_Number(call.b)
                /\ ~InOpenUnitInterval(call.b)) =>
               (result.exc = "ValueError"
                   /\ result.msg # "Probability should be a number")

\* reached: a call with a valid num_words and probability = 1.0 has raised
C10_Witness ==
    /\ call.op = "with_false_positive_constraint"
    /\ PositiveInteger(call.a) /\ call.b = PyFloat(100)
    /\ result.exc = "ValueError" /\ ~constructed

\* C11: add and query called with an item that is not a string raise the
\* validation failure (TypeError, "Word should be a string") before anything
\* is hashed, and leave the bit array and every parameter of the filter as
\* they were before the call.
C11_NonStringItemRejected ==
    [][(call'.op \in {"add", "query"} /\ ~isinstance_str(call'.a)) =>
          /\ result' = Raise("TypeError", "Word should be a string")
          /\ UNCHANGED <<filter, bit_array, added, found>>]_vars

\* reached: add(None) has raised on a filter that holds bits
C11_Witness ==
    /\ constructed /\ SetBits # {}
    /\ call.op = "add" /\ call.a = PyNone
    /\ result.exc = "TypeError"

\* the reasons given for a value of the wrong type, and for a value out of range
TypeReasons ==
    NotIntegerReasons \cup {"Probability should be a number",
                            "Word should be a string"}
RangeReasons ==
    NotPositiveReasons \cup {"Probability should be a number in (0,1)"}

\* C12 as claimed: there is a single kind of error, so two failing calls in a
\* row raise the same kind.
C12_SingleErrorKind ==
    [][(result.exc # "" /\ result'.exc # "") => result'.exc = result.exc]_vars

\* C12 as amended: a validation failure is of one of two kinds, TypeError for
\* a value of the wrong type and ValueError for a value out of range, each
\* with its reason; which kind is raised follows from the reason.
C12_TwoErrorKinds ==
    (result.exc # "" /\ result.msg \in TypeReasons \cup RangeReasons) =>
        /\ result.exc \in {"TypeError", "ValueError"}
        /\ result.exc = "TypeError" <=> result.msg \in TypeReasons
        /\ result.exc = "ValueError" <=> result.msg \in RangeReasons
        /\ TypeReasons \cap RangeReasons = {}

\* reached: a constructor call has raised a ValueError for a probability out
\* of range, where a wrong type would have raised a TypeError
C12_Witness ==
    /\ call.op = "with_false_positive_constraint"
    /\ PositiveInteger(call.a) /\ isinstance_Number(call.b)
    /\ result.exc = "ValueError" /\ result.msg \in RangeReasons


\* C13: the parameters of a filter are immutable.  Once the filter is
\* constructed no add and no query changes num_words, num_bits, num_hash or
\* false_positive_prob, and the bit array has num_bits positions in every
\* state.
C13_ParametersImmutable ==
    /\ [](constructed => Len(bit_array) = num_bits)
    /\ [][constructed =>
             UNCHANGED <<constructed, num_words, num_bits, num_hash,
                         false_positive_prob>>]_vars

\* reached: adds and a query have run on a filter, the last of them an add
\* that returned
C13_Witness ==
    /\ constructed /\ Returned("add")
    /\ found # {} /\ Cardinality(added) >= 2
    /\ Len(bit_array) = num_bits

\* a constructor call was the last call, and it returned a filter
Constructed(op) == call.op = op /\ result.exc = "" /\ constructed

\* C14: a filter as either constructor returns it has num_bits >= 1,
\* num_hash >= 0 and a bit array of exactly num_bits positions, all False.
C14_FreshFilter ==
    (Constructed("BloomFilter")
        \/ Constructed("with_false_positive_constraint")) =>
        /\ num_bits >= 1
        /\ num_hash >= 0
        /\ DOMAIN bit_array = 1..num_bits
        /\ \A i \in 1..num_bits : bit_array[i] = FALSE

\* reached: construction by false-positive bound has returned a filter of a
\* single bit
C14_Witness ==
    /\ Constructed("with_false_positive_constraint")
    /\ num_bits = 1 /\ bit_array = <<FALSE>>

\* C15: construction by false-positive bound (n, p) yields a num_bits whose
\* estimate exp(-(num_bits/n) * ln(2)^2) is at most p: in logarithms,
\* -(num_bits/n) * ln(2)^2 <= ln p.
C15_EstimateWithinBound ==
    Constructed("with_false_positive_constraint") =>
        /\ false_positive_prob <= math_log(call.b)
        /\ -(num_bits * Ln2SqMicro) <= num_words * math_log(call.b)

\* reached: construction with p = 0.01 has returned a filter whose estimate is
\* below the bound, and one bit fewer would have put it above
C15_Witness ==
    /\ Constructed("with_false_positive_constraint")
    /\ call.b = PyFloat(1)
    /\ false_positive_prob < math_log(call.b)
    /\ -((num_bits - 1) * Ln2SqMicro) > num_words * math_log(call.b)

\* C16: num_words is no cap.  An add of a string returns, whatever the number
\* of distinct words added before it, more than num_words included, and every
\* word added is still answered True.
C16_NoCapacityLimit ==
    (constructed /\ call.op = "add" /\ isinstance_str(call.a)) =>
        /\ result = Return("None")
        /\ call.a \in added
        /\ \A w \in added : query_value(w)

\* reached: an add has returned with more distinct words added than num_words,
\* on a filter that still has bits False
C16_Witness ==
    /\ constructed /\ Returned("add") /\ num_hash >= 1
    /\ Cardinality(added) > num_words
    /\ SetBits # DOMAIN bit_array

\* C17 as claimed: h1 is read from the whole first half of the digest and h2
\* from the whole second half, so the digits of h1 followed by those of h2
\* are the digest.
C17_DigestHalves ==
    (constructed /\ (Returned("add") \/ Returned("query"))) =>
        /\ Len(h1_hex(call.a)) * 2 = Len(md5_hexdigest(call.a))
        /\ Len(h2_hex(call.a)) * 2 = Len(md5_hexdigest(call.a))
        /\ h1_hex(call.a) \o h2_hex(call.a) = md5_hexdigest(call.a)

\* the bit positions derived for the words of S
PositionsOf(S) ==
    {get_hashes(w)[j] + 1 : w \in S, j \in 1..num_hash}

\* C18: a bit is True if and only if it is a derived position of a word that
\* add has completed for; so a filter with num_hash >= 1 and nothing added
\* answers False to every query.
C18_BitsAreAddedPositions ==
    constructed =>
        /\ SetBits = UNION {{get_hashes(w)[j] + 1 : j \in 1..num_hash} :
                            w \in added}
        /\ (added = {} /\ num_hash >= 1) =>
               /\ \A w \in Words : ~query_value(w)
               /\ Returned("query") => result.ret = "False"

\* reached: a query on a fresh filter with hash functions has returned False
C18_Witness ==
    /\ constructed /\ num_hash >= 1 /\ added = {}
    /\ Returned("query") /\ result.ret = "False"

\* C19: query is read-only.  A query call, returning True, returning False or
\* raising, leaves the bit array and the parameters of the filter as they
\* were.
C19_QueryReadOnly ==
    [][call'.op = "query" => UNCHANGED <<filter, bit_array, added>>]_vars

\* reached: a query has returned False on a filter that holds the bits of
\* added words
C19_Witness ==
    /\ constructed /\ added # {} /\ SetBits # {}
    /\ Returned("query") /\ result.ret = "False"

\* the words of added, added to bits in ascending order from str(v) on
RECURSIVE AddUp(_, _)
AddUp(bits, v) ==
    IF v >= MaxStr THEN bits
    ELSE AddUp(IF PyStr(v) \in added
               THEN set_bits(bits, get_hashes(PyStr(v))) ELSE bits, v + 1)

\* the words of added, added to bits in descending order from str(v) down
RECURSIVE AddDown(_, _)
AddDown(bits, v) ==
    IF v < 0 THEN bits
    ELSE AddDown(IF PyStr(v) \in added
                 THEN set_bits(bits, get_hashes(PyStr(v))) ELSE bits, v - 1)

\* C20: add is commutative.  From every reachable bit array, adding a then b
\* gives the array that adding b then a gives; and the bit array is the one
\* that adding the words added so far to an empty array gives, in ascending
\* as in descending order, whatever the order and number of the add calls.
C20_AddCommutes ==
    constructed =>
        /\ \A a, b \in Words :
               set_bits(set_bits(bit_array, get_hashes(a)), get_hashes(b))
                   = set_bits(set_bits(bit_array, get_hashes(b)), get_hashes(a))
        /\ bit_array = AddUp([i \in 1..num_bits |-> FALSE], 0)
        /\ bit_array = AddDown([i \in 1..num_bits |-> FALSE], MaxStr - 1)

\* reached: the last add was of a word that comes before another added word,
\* the two with different positions, and the last add was made twice
C20_Witness ==
    /\ constructed /\ Returned("add") /\ repeat
    /\ \E w \in added :
           /\ w.val > call.a.val
           /\ PositionsOf({w}) # PositionsOf({call.a})
    /\ SetBits # DOMAIN bit_array

=============================================================================
